---- MODULE Spec2Model ----
(***************************************************************************)
(* A model of tacho (src/src/tacho.py): the measurement session of         *)
(* main()/measure(), the aggregation of perf readings, the run-count       *)
(* planning, the statistics frames written to stdout, ProgressBar.render   *)
(* and eta().                                                              *)
(*                                                                         *)
(* Conventions.                                                            *)
(*  - Durations and the time budget are integers in one common unit; only  *)
(*    their quotient enters the program (int(total_seconds / runtime)).    *)
(*    Quotients and products of floats are taken exactly.                  *)
(*  - The float a report line carries is represented by the ordinal of the *)
(*    measured execution that produced it (0 for a warmup execution).      *)
(*  - args.runs = 0 stands for both "--runs not given" (None) and          *)
(*    "--runs 0": the program only tests the truth value of args.runs.     *)
(*  - stdout is the sequence of the writes of the program, each write a    *)
(*    record; the escape sequences are kept as fields (up = cursor-up).    *)
(***************************************************************************)
EXTENDS Integers, Sequences, FiniteSets, TLC

VARIABLES
    args,              \* argparse.Namespace: warmup, runs, min_runs, max_runs, total_seconds
    pc,                \* position of the process in main()/measure()
    w,                 \* number of warmup executions done
    measures,          \* list[Measurement] of measure()
    new_run,           \* the readings of the latest run_perf call of line 488
    measured_runtime,  \* wall-clock duration of the initial run
    num_runs,          \* planned number of additional runs
    r,                 \* loop variable of "for r in range(num_runs)"
    r_bound,           \* whether the local name r is bound yet
    num_lines,         \* lines written by the previous statistics frame
    stdout,            \* everything written to the terminal, in order
    executions,        \* measured executions (run_perf calls of lines 463, 488) that returned
    fault,             \* the exception that ended the process, or "none"
    bar_in, bar_out,   \* argument and result of ProgressBar.render
    eta_in, eta_out    \* argument (in half seconds) and result of eta

vars == <<args, pc, w, measures, new_run, measured_runtime, num_runs, r, r_bound,
          num_lines, stdout, executions, fault, bar_in, bar_out, eta_in, eta_out>>

(***************************************************************************)
(* Bounds of the model.                                                    *)
(***************************************************************************)
MaxWarmup == 2        \* args.warmup ranges over 0..MaxWarmup
NumEvents == 2        \* events named by --event, one report line each
MaxRunsArg == 3       \* args.runs, args.min_runs, args.max_runs range up to this
MaxBudget == 3        \* args.total_seconds ranges over 0..MaxBudget
MaxDuration == 2      \* the initial run's duration ranges over 0..MaxDuration

width == 120
sys_maxsize == 2147483647   \* stands for sys.maxsize, the default of --max-runs

Max(a, b) == IF a >= b THEN a ELSE b
Min(a, b) == IF a <= b THEN a ELSE b

(***************************************************************************)
(* int(a / b) for b > 0: Python's int() truncates toward zero.             *)
(***************************************************************************)
int_div(a, b) == IF a >= 0 THEN a \div b ELSE -((-a) \div b)

clamp_hi_ignored(value, lo, hi) == Max(lo, value)

clamp(value, lo, hi) == Max(lo, Min(value, hi))

(***************************************************************************)
(* One perf report: a line per event, which either carries a number or a   *)
(* placeholder such as "<not counted>" (counted = FALSE).  A failed perf   *)
(* run leaves an empty report, which parses like a report without any      *)
(* counted line.                                                           *)
(***************************************************************************)
Reports == [1..NumEvents -> BOOLEAN]

RECURSIVE parse_lines(_, _, _)
parse_lines(report, value, i) ==
    IF i > NumEvents THEN <<>>
    ELSE (IF report[i] THEN <<[name |-> i, values |-> <<value>>]>> ELSE <<>>)
         \o parse_lines(report, value, i + 1)

parse_perf_stat_csv(report, value) == parse_lines(report, value, 1)

(***************************************************************************)
(* zip(totals, new_run) pairs positions 1..min(len, len); every paired     *)
(* total is extended by the values of its partner.                         *)
(***************************************************************************)
integrate_measures(totals, new_run_) ==
    [i \in 1..Len(totals) |->
        IF i <= Len(new_run_)
        THEN [totals[i] EXCEPT !.values = @ \o new_run_[i].values]
        ELSE totals[i]]

(***************************************************************************)
(* One write to stdout.  up is <<n>> when the write starts with the        *)
(* cursor-up sequence ESC[nF and <<>> otherwise; lines are the             *)
(* newline-terminated lines of the write; p = <<a, b>> is the progress     *)
(* fraction a/b handed to pb.render.                                       *)
(***************************************************************************)
Write(kind, up, lines, text, p) ==
    [kind |-> kind, up |-> up, lines |-> lines, text |-> text, p |-> p]

render_text(rr, n) ==
    IF rr = 0 THEN "Initial run"
    ELSE IF rr >= n THEN "Done"
    ELSE "Measuring"

render_returns_wrong_count(ms, rr, n, num_lines_back) ==
    [out |-> Write("stats",
                   IF num_lines_back > 0 THEN <<num_lines_back>> ELSE <<>>,
                   <<"bar", "blank", "columns">> \o [i \in 1..Len(ms) |-> "stat"],
                   render_text(rr, n),
                   <<rr + 1, n + 1>>),
     lines |-> Len(ms) + 2]

render(ms, rr, n, num_lines_back) ==
    [out |-> Write("stats",
                   IF num_lines_back > 0 THEN <<num_lines_back>> ELSE <<>>,
                   <<"bar", "blank", "columns">> \o [i \in 1..Len(ms) |-> "stat"],
                   render_text(rr, n),
                   <<rr + 1, n + 1>>),
     lines |-> Len(ms) + 3]

(***************************************************************************)
(* The session.                                                            *)
(***************************************************************************)
Args == [warmup : 0..MaxWarmup,
         runs : 0..MaxRunsArg,
         min_runs : 0..MaxRunsArg,
         max_runs : -1..MaxRunsArg,
         total_seconds : 0..MaxBudget]

InitSession(argset) ==
    /\ args \in argset
    /\ pc = "main"
    /\ w = 0
    /\ measures = <<>>
    /\ new_run = <<>>
    /\ measured_runtime = 0
    /\ num_runs = 0
    /\ r = 0
    /\ r_bound = FALSE
    /\ num_lines = 0
    /\ stdout = <<>>
    /\ executions = 0
    /\ fault = "none"

Raise(exc) ==
    /\ fault' = exc
    /\ pc' = "Exited"

\* main(), lines 502-505: the arguments are parsed, the cursor is hidden.
Main ==
    /\ pc = "main"
    /\ stdout' = Append(stdout, Write("cursor_hide", <<>>, <<"benchmark", "blank">>, "Benchmark", <<0, 1>>))
    /\ pc' = IF args.warmup > 0 THEN "Warmup" ELSE "InitialTimedRun"
    /\ UNCHANGED <<args, w, measures, new_run, measured_runtime, num_runs, r, r_bound,
                   num_lines, executions, fault>>
    /\ UNCHANGED <<bar_in, bar_out, eta_in, eta_out>>

\* measure(), lines 453-458: one warmup execution, its readings are dropped.
\* subprocess.run raises FileNotFoundError when perf cannot be started.
Warmup ==
    /\ pc = "Warmup"
    /\ w < args.warmup
    /\ stdout' = Append(stdout, Write("warmup", <<>>, <<>>, "warmup", <<w, args.warmup>>))
    /\ \E started \in BOOLEAN :
          IF started
          THEN /\ \E report \in Reports : Len(parse_perf_stat_csv(report, 0)) <= NumEvents
               /\ w' = w + 1
               /\ pc' = IF w + 1 < args.warmup THEN "Warmup" ELSE "InitialTimedRun"
               /\ UNCHANGED fault
          ELSE /\ Raise("FileNotFoundError")
               /\ UNCHANGED w
    /\ UNCHANGED <<args, measures, new_run, measured_runtime, num_runs, r, r_bound,
                   num_lines, executions>>
    /\ UNCHANGED <<bar_in, bar_out, eta_in, eta_out>>

\* measure(), lines 461-464: the initial timed run.
InitialTimedRun ==
    /\ pc = "InitialTimedRun"
    /\ stdout' = Append(stdout, Write("initial", <<>>, <<>>, "Initial run...", <<0, 1>>))
    /\ \E started \in BOOLEAN :
          IF started
          THEN /\ \E report \in Reports :
                     measures' = parse_perf_stat_csv(report, executions + 1)
               /\ \E d \in 0..MaxDuration : measured_runtime' = d
               /\ executions' = executions + 1
               /\ pc' = "Plan"
               /\ UNCHANGED fault
          ELSE /\ Raise("FileNotFoundError")
               /\ UNCHANGED <<measures, measured_runtime, executions>>
    /\ UNCHANGED <<args, w, new_run, num_runs, r, r_bound, num_lines>>
    /\ UNCHANGED <<bar_in, bar_out, eta_in, eta_out>>

\* measure(), lines 466-475: the number of additional runs.  The quotient is
\* evaluated before args.runs is looked at; a zero divisor raises.
Plan ==
    /\ pc = "Plan"
    /\ IF measured_runtime = 0
       THEN /\ Raise("ZeroDivisionError")
            /\ UNCHANGED <<num_runs, num_lines>>
       ELSE LET estimate == clamp(int_div(args.total_seconds, measured_runtime),
                                  args.min_runs - 1, args.max_runs)
                n == IF args.runs # 0 THEN args.runs - 1 ELSE estimate
            IN /\ num_runs' = n
               /\ num_lines' = 0
               /\ pc' = IF n > 0 THEN "LoopRender" ELSE "FinalRender"
               /\ UNCHANGED fault
    /\ UNCHANGED <<args, w, measures, new_run, measured_runtime, r, r_bound, stdout, executions>>
    /\ UNCHANGED <<bar_in, bar_out, eta_in, eta_out>>

\* measure(), lines 476-487: the loop binds r and writes the frame.
LoopRender ==
    /\ pc = "LoopRender"
    /\ LET rn == IF r_bound THEN r + 1 ELSE 0
           f == render(measures, rn + 1, num_runs, num_lines)
       IN /\ r' = rn
          /\ r_bound' = TRUE
          /\ stdout' = Append(stdout, f.out)
          /\ num_lines' = f.lines
    /\ pc' = "LoopRun"
    /\ UNCHANGED <<args, w, measures, new_run, measured_runtime, num_runs, executions, fault>>
    /\ UNCHANGED <<bar_in, bar_out, eta_in, eta_out>>

\* measure(), line 488: one more measured execution, merged into measures.
LoopRun ==
    /\ pc = "LoopRun"
    /\ \E started \in BOOLEAN :
          IF started
          THEN /\ \E report \in Reports :
                     /\ new_run' = parse_perf_stat_csv(report, executions + 1)
                     /\ measures' = integrate_measures(measures,
                                        parse_perf_stat_csv(report, executions + 1))
               /\ executions' = executions + 1
               /\ pc' = IF r + 1 < num_runs THEN "LoopRender" ELSE "FinalRender"
               /\ UNCHANGED fault
          ELSE /\ Raise("FileNotFoundError")
               /\ UNCHANGED <<measures, new_run, executions>>
    /\ UNCHANGED <<args, w, measured_runtime, num_runs, r, r_bound, num_lines, stdout>>
    /\ UNCHANGED <<bar_in, bar_out, eta_in, eta_out>>

\* measure(), lines 490-498: the frame after the loop reads r.
FinalRender ==
    /\ pc = "FinalRender"
    /\ IF r_bound
       THEN LET f == render(measures, r + 1, num_runs, num_lines)
            IN /\ stdout' = Append(stdout, f.out)
               /\ num_lines' = f.lines
               /\ pc' = "CursorShow"
               /\ UNCHANGED fault
       ELSE /\ Raise("UnboundLocalError")
            /\ UNCHANGED <<stdout, num_lines>>
    /\ UNCHANGED <<args, w, measures, new_run, measured_runtime, num_runs, r, r_bound, executions>>
    /\ UNCHANGED <<bar_in, bar_out, eta_in, eta_out>>

\* main(), line 507.
CursorShow ==
    /\ pc = "CursorShow"
    /\ stdout' = Append(stdout, Write("cursor_show", <<>>, <<>>, "", <<0, 1>>))
    /\ pc' = "Done"
    /\ UNCHANGED <<args, w, measures, new_run, measured_runtime, num_runs, r, r_bound,
                   num_lines, executions, fault>>
    /\ UNCHANGED <<bar_in, bar_out, eta_in, eta_out>>

\* Ctrl-C: KeyboardInterrupt is raised wherever the process is; nothing in
\* main() or measure() catches it.
Interrupt ==
    /\ pc \in {"Warmup", "InitialTimedRun", "Plan", "LoopRender", "LoopRun",
               "FinalRender", "CursorShow"}
    /\ Raise("KeyboardInterrupt")
    /\ UNCHANGED <<args, w, measures, new_run, measured_runtime, num_runs, r, r_bound,
                   num_lines, stdout, executions>>
    /\ UNCHANGED <<bar_in, bar_out, eta_in, eta_out>>

(***************************************************************************)
(* Python's round() on the fraction n/d, d > 0, n >= 0: to the nearest     *)
(* integer, a tie to the even one.                                         *)
(***************************************************************************)
round(n, d) ==
    LET q == n \div d
        rem == n % d
    IN IF 2 * rem < d THEN q
       ELSE IF 2 * rem > d THEN q + 1
       ELSE IF q % 2 = 0 THEN q ELSE q + 1

(***************************************************************************)
(* ProgressBar and the presets of class ProgressBars.  A rendered bar is a *)
(* sequence of tokens: a glyph occupies one cell, the members of Tty are   *)
(* escape sequences and occupy none.  A prefix is a sequence of tokens     *)
(* (empty for the "" of no_color).                                         *)
(***************************************************************************)
Tty == {"fg_bold_yellow", "fg_normal_blue", "fg_bold_green", "reset"}

ProgressBar(left_progress, left_fill, right_progress, right_fill) ==
    [left_prefix |-> <<"fg_bold_yellow">>,
     left_progress |-> left_progress,
     left_fill |-> left_fill,
     right_prefix |-> <<"fg_normal_blue">>,
     right_progress |-> right_progress,
     right_fill |-> right_fill,
     finished_prefix |-> <<"fg_bold_green">>,
     postfix |-> <<"reset">>]

ProgressBars ==
    [standard |-> ProgressBar(<<"heavy_left", "heavy">>, "heavy",
                              <<"light", "light_right">>, "light"),
     no_color |-> [ProgressBar(<<"heavy_left", "heavy">>, "heavy",
                               <<"light", "light_right">>, "light")
                   EXCEPT !.left_prefix = <<>>, !.right_prefix = <<>>,
                          !.postfix = <<>>, !.finished_prefix = <<>>],
     box |-> ProgressBar(<<"space", "b1", "b2", "b3", "b4", "b5", "b6", "b7">>, "block",
                         <<"dot">>, "dot"),
     braille3 |-> ProgressBar(<<"space", "d1", "d2", "d3", "d4", "d5", "d6">>, "d6",
                              <<"m2", "m2", "m2", "m1", "m1", "m1">>, "m2"),
     braille4 |-> ProgressBar(<<"space", "e1", "e2", "e3", "e4", "e5", "e6", "e7", "e8">>, "e8",
                              <<"n4", "n4", "n4", "n4", "n2", "n2", "n2", "n2">>, "n4")]

Repeat(glyph, n) == [i \in 1..n |-> glyph]

\* divmod(ticks, num_progress) of the rounded progress_01 * (width * num_progress)
calc_num_full_and_progress_idx(p, w_, num_progress) ==
    LET ticks == round(p[1] * (w_ * num_progress), p[2])
    IN <<ticks \div num_progress, ticks % num_progress>>

ProgressBar_render_unguarded(pb, progress_01, w_) ==
    LET p == IF progress_01[1] <= 0 THEN <<0, 1>> ELSE progress_01
    IN IF p[1] >= p[2]
       THEN pb.finished_prefix \o Repeat(pb.left_fill, w_) \o pb.postfix
       ELSE LET dl == calc_num_full_and_progress_idx(p, w_, Len(pb.left_progress))
                pb_left == Repeat(pb.left_fill, dl[1]) \o <<pb.left_progress[dl[2] + 1]>>
                dr == calc_num_full_and_progress_idx(p, w_, Len(pb.right_progress))
                pb_right0 == IF Len(pb_left) < w_
                             THEN <<pb.right_progress[dr[2] + 1]>> ELSE <<>>
                total_length == Len(pb_left) + Len(pb_right0)
                pb_right == IF total_length < w_
                            THEN pb_right0 \o Repeat(pb.right_fill, w_ - total_length)
                            ELSE pb_right0
            IN pb.left_prefix \o pb_left \o pb.right_prefix \o pb_right \o pb.postfix

\* ProgressBar.render; progress_01 is the fraction <<a, b>>, b > 0.
ProgressBar_render(pb, progress_01, w_) ==
    LET p == IF progress_01[1] <= 0 THEN <<0, 1>> ELSE progress_01
    IN IF p[1] >= p[2]
       THEN pb.finished_prefix \o Repeat(pb.left_fill, w_) \o pb.postfix
       ELSE LET dl == calc_num_full_and_progress_idx(p, w_, Len(pb.left_progress))
                pb_left0 == Repeat(pb.left_fill, dl[1])
                pb_left == IF Len(pb_left0) < w_
                           THEN pb_left0 \o <<pb.left_progress[dl[2] + 1]>>
                           ELSE pb_left0
                dr == calc_num_full_and_progress_idx(p, w_, Len(pb.right_progress))
                pb_right0 == IF Len(pb_left) < w_
                             THEN <<pb.right_progress[dr[2] + 1]>> ELSE <<>>
                total_length == Len(pb_left) + Len(pb_right0)
                pb_right == IF total_length < w_
                            THEN pb_right0 \o Repeat(pb.right_fill, w_ - total_length)
                            ELSE pb_right0
            IN pb.left_prefix \o pb_left \o pb.right_prefix \o pb_right \o pb.postfix

MaxWidth == 10        \* widths 1..MaxWidth, and the widths the program and its tests use
PDen == 1000          \* fractions a/PDen, a in 0..PDen
MaxRamp == 3          \* besides the presets, ramps of 1..MaxRamp glyphs on either side

Widths == (1..MaxWidth) \cup {30, 80, width}

\* a ProgressBar constructed with ramps of nl and nr glyphs
Ramp(nl, nr) == ProgressBar([i \in 1..nl |-> "left"], "left_fill",
                            [i \in 1..nr |-> "right"], "right_fill")

Styles == {ProgressBars[s] : s \in DOMAIN ProgressBars}
             \cup {Ramp(nl, nr) : nl \in 1..MaxRamp, nr \in 1..MaxRamp}

BarInputs == [pb : Styles, p : {<<a, PDen>> : a \in 0..PDen}, width : Widths]

IdleBar == bar_in = [pb |-> ProgressBars.standard, p |-> <<0, PDen>>, width |-> width] /\ bar_out = <<>>

BarRender ==
    /\ bar_out = <<>>
    /\ bar_out' = ProgressBar_render(bar_in.pb, bar_in.p, bar_in.width)
    /\ UNCHANGED <<args, pc, w, measures, new_run, measured_runtime, num_runs, r, r_bound,
                   num_lines, stdout, executions, fault, bar_in, eta_in, eta_out>>

(***************************************************************************)
(* eta().  The result is the sequence of the formatted fields of the       *)
(* f-strings: the number, its minimum width (zero padded), and the literal *)
(* text that follows it; eta_string is the string itself.  The argument is *)
(* given in half seconds so that round() has something to round.           *)
(***************************************************************************)
Field(unit, num, minwidth, sep) ==
    [unit |-> unit, num |-> num, minwidth |-> minwidth, sep |-> sep]

eta_without_cascade(half_seconds, pre_num, post_num) ==
    LET t0 == round(half_seconds, 2)
        years == t0 \div 31556952
        t1 == t0 % 31556952
        months == t1 \div 2629746
        t2 == t1 % 2629746
        days == t2 \div 86400
        t3 == t2 % 86400
        hours == t3 \div 3600
        t4 == t3 % 3600
        minutes == t4 \div 60
        seconds == t4 % 60
        out1 == IF years > 0 THEN <<Field("Y", years, 1, "Y ")>> ELSE <<>>
        out2 == IF months > 0
                THEN out1 \o <<Field("M", months, 1, "M ")>> ELSE out1
        out3 == IF days > 0
                THEN out2 \o <<Field("D", days, 1, "D ")>> ELSE out2
        out4 == IF hours > 0
                THEN out3 \o <<Field("h", hours, 1, ":")>> ELSE out3
    IN out4 \o <<Field("m", minutes, 2, ":"), Field("s", seconds, 2, "")>>

eta(half_seconds, pre_num, post_num) ==
    LET t0 == round(half_seconds, 2)
        years == t0 \div 31556952
        t1 == t0 % 31556952
        months == t1 \div 2629746
        t2 == t1 % 2629746
        days == t2 \div 86400
        t3 == t2 % 86400
        hours == t3 \div 3600
        t4 == t3 % 3600
        minutes == t4 \div 60
        seconds == t4 % 60
        out1 == IF years > 0 THEN <<Field("Y", years, 1, "Y ")>> ELSE <<>>
        out2 == IF Len(out1) # 0 \/ months > 0
                THEN out1 \o <<Field("M", months, 1, "M ")>> ELSE out1
        out3 == IF Len(out2) # 0 \/ days > 0
                THEN out2 \o <<Field("D", days, 1, "D ")>> ELSE out2
        out4 == IF Len(out3) # 0 \/ hours > 0
                THEN out3 \o <<Field("h", hours, 1, ":")>> ELSE out3
    IN out4 \o <<Field("m", minutes, 2, ":"), Field("s", seconds, 2, "")>>

\* str.format of an int with minimum width 1 or 2, zero padded
format_int(num, minwidth) ==
    IF minwidth = 2 /\ num < 10 THEN "0" \o ToString(num) ELSE ToString(num)

RECURSIVE eta_string(_, _, _)
eta_string(fields, pre_num, post_num) ==
    IF fields = <<>> THEN ""
    ELSE pre_num \o format_int(Head(fields).num, Head(fields).minwidth) \o post_num
         \o Head(fields).sep \o eta_string(Tail(fields), pre_num, post_num)

MaxEtaRange == 300    \* arguments 0..MaxEtaRange half seconds
EtaDelta == 4         \* and those within EtaDelta half seconds of a unit boundary

EtaBoundaries == {60, 3600, 86400, 2629746, 31556952, 1000000000}
EtaInputs ==
    [half_seconds : (0..MaxEtaRange) \cup
                    UNION {(2 * b - EtaDelta)..(2 * b + EtaDelta) : b \in EtaBoundaries},
     pre_num : {""}, post_num : {""}]
    \cup [half_seconds : {7, 2000000000}, pre_num : {"a"}, post_num : {"b"}]

IdleEta == eta_in = [half_seconds |-> 0, pre_num |-> "", post_num |-> ""] /\ eta_out = <<>>

Eta ==
    /\ eta_out = <<>>
    /\ eta_out' = eta(eta_in.half_seconds, eta_in.pre_num, eta_in.post_num)
    /\ UNCHANGED <<args, pc, w, measures, new_run, measured_runtime, num_runs, r, r_bound,
                   num_lines, stdout, executions, fault, bar_in, bar_out, eta_in>>

(***************************************************************************)
(* Specifications: the session, and one for each pure function.            *)
(***************************************************************************)
DefaultArgs == [warmup |-> 0, runs |-> 0, min_runs |-> 10, max_runs |-> sys_maxsize,
                total_seconds |-> 3]

Init == InitSession(Args) /\ IdleBar /\ IdleEta

Next ==
    \/ Main
    \/ Warmup
    \/ InitialTimedRun
    \/ Plan
    \/ LoopRender
    \/ LoopRun
    \/ FinalRender
    \/ CursorShow
    \/ Interrupt

Spec == Init /\ [][Next]_vars

InitBar == InitSession({DefaultArgs}) /\ bar_in \in BarInputs /\ bar_out = <<>> /\ IdleEta

NextBar == BarRender

SpecBar == InitBar /\ [][NextBar]_vars

InitEta == InitSession({DefaultArgs}) /\ IdleBar /\ eta_in \in EtaInputs /\ eta_out = <<>>

NextEta == Eta

SpecEta == InitEta /\ [][NextEta]_vars

(***************************************************************************)
(* Properties.                                                             *)
(***************************************************************************)
LoopOver == pc \in {"FinalRender", "CursorShow", "Done"}
               \/ (pc = "Exited" /\ fault = "UnboundLocalError")

StatsFrames == SelectSeq(stdout, LAMBDA f : f.kind = "stats")

\* C1: after the initial timed run and k merged runs, every Measurement of
\* measures holds exactly k+1 values, whatever number of readings each
\* execution's report yields.
C1_SamplesInLockstep ==
    \A i \in 1..Len(measures) : Len(measures[i].values) = executions

\* C2: a measured execution whose number of readings differs from the number
\* of samples ends the session with an error and extends no value list.
C2_MismatchAbortsWithoutMerge ==
    [][(pc = "LoopRun" /\ Len(new_run') # Len(measures))
          => (fault' # "none" /\ measures' = measures)]_vars

\* The number of additional runs the plan of the arguments asks for: R - 1
\* for an explicit run count R >= 1, else the truncated quotient of budget
\* and duration, brought into [min_runs - 1, max_runs].
PlannedAdditionalRuns ==
    IF args.runs >= 1 THEN args.runs - 1
    ELSE LET q == IF args.total_seconds >= 0
                  THEN args.total_seconds \div measured_runtime
                  ELSE -((-args.total_seconds) \div measured_runtime)
         IN IF q < args.min_runs - 1 THEN args.min_runs - 1
            ELSE IF q > args.max_runs THEN args.max_runs
            ELSE q

PlanPrecondition ==
    /\ executions >= 1
    /\ measured_runtime > 0
    /\ args.min_runs - 1 <= args.max_runs

C4_NoDivideByZero == fault # "ZeroDivisionError"

\* C5: for every run plan, zero additional runs included, a session whose
\* executions all return goes through Warmup, InitialTimedRun and Measuring
\* to Done without a fault: it ends early only when it is interrupted or
\* perf cannot be started (stated here for a positive initial duration and
\* a plan of zero or more additional runs).
C5_ReachesDoneWithoutFault ==
    (pc = "Exited" /\ measured_runtime > 0 /\ num_runs >= 0)
       => fault \in {"KeyboardInterrupt", "FileNotFoundError"}

\* C6: on every way the session ends after the cursor was hidden, the
\* cursor-show sequence has been written.
C6_CursorRestored ==
    (pc \in {"Done", "Exited"} /\ \E i \in 1..Len(stdout) : stdout[i].kind = "cursor_hide")
       => stdout[Len(stdout)].kind = "cursor_show"

\* C7: for every width W >= 1, every fraction in [0,1] and every glyph ramp, the
\* rendered bar has exactly W glyphs besides the escape sequences.
C7_BarWidth ==
    bar_out # <<>>
       => Len(SelectSeq(bar_out, LAMBDA g : g \notin Tty)) = bar_in.width

C7_Witness ==
    /\ bar_out # <<>>
    /\ bar_in.pb = ProgressBars.box
    /\ bar_in.width = 3
    /\ bar_in.p = <<PDen - 1, PDen>>
    /\ bar_out[2] = "block" /\ bar_out[4] = "block"

\* C8: for a whole number t >= 0 of seconds the fields of eta are a greedy
\* decomposition of t into years, months, days, hours, minutes and seconds
\* that recombines to t; a year, month, day or hour field is there exactly
\* when it is not zero or a larger unit is there; minutes and seconds are
\* always there with two digits, the hour is not padded; and the literal
\* table of the tests holds.
UnitSeconds(u) ==
    CASE u = "Y" -> 31556952
      [] u = "M" -> 2629746
      [] u = "D" -> 86400
      [] u = "h" -> 3600
      [] u = "m" -> 60
      [] u = "s" -> 1

UnitRank(u) ==
    CASE u = "Y" -> 1 [] u = "M" -> 2 [] u = "D" -> 3
      [] u = "h" -> 4 [] u = "m" -> 5 [] u = "s" -> 6

RECURSIVE FieldsTotal(_)
FieldsTotal(fields) ==
    IF fields = <<>> THEN 0
    ELSE Head(fields).num * UnitSeconds(Head(fields).unit) + FieldsTotal(Tail(fields))

EtaTable(t) ==
    CASE t = 0 -> "00:00"
      [] t = 3599 -> "59:59"
      [] t = 3600 -> "1:00:00"
      [] t = 86399 -> "23:59:59"
      [] t = 86400 -> "1D 0:00:00"
      [] t = 2629745 -> "30D 10:29:05"
      [] t = 2629746 -> "1M 0D 0:00:00"
      [] t = 1000000000 -> "31Y 8M 8D 1:28:40"

EtaTableDomain == {0, 3599, 3600, 86399, 86400, 2629745, 2629746, 1000000000}

C8_EtaDecomposition ==
    (eta_out # <<>> /\ eta_in.half_seconds % 2 = 0)
       => LET t == eta_in.half_seconds \div 2
              n == Len(eta_out)
          IN /\ n >= 2
             /\ FieldsTotal(eta_out) = t
             /\ \A i \in 1..n : eta_out[i].num >= 0
             /\ \A i \in 2..n : FieldsTotal(SubSeq(eta_out, i, n)) < UnitSeconds(eta_out[i - 1].unit)
             /\ \A i \in 1..(n - 1) : UnitRank(eta_out[i + 1].unit) = UnitRank(eta_out[i].unit) + 1
             /\ eta_out[n].unit = "s"
             /\ eta_out[1].unit \in {"Y", "M", "D", "h"} => eta_out[1].num > 0
             /\ \A u \in {"Y", "M", "D", "h"} :
                   UnitRank(u) < UnitRank(eta_out[1].unit) => t < UnitSeconds(u)
             /\ \A i \in 1..n : eta_out[i].minwidth = (IF eta_out[i].unit \in {"m", "s"} THEN 2 ELSE 1)
             /\ (t \in EtaTableDomain /\ eta_in.pre_num = "")
                   => eta_string(eta_out, eta_in.pre_num, eta_in.post_num) = EtaTable(t)

C8_Witness ==
    /\ eta_in.half_seconds = 2 * 31556952
    /\ eta_in.pre_num = ""
    /\ Len(eta_out) = 6
    /\ eta_string(eta_out, "", "") = "1Y 0M 0D 0:00:00"

\* C9: every statistics frame moves the cursor up by exactly the number of
\* lines the statistics frame before it wrote, which is 3 + the number of
\* metrics, and the first statistics frame of a session moves it not at all.
C9_RedrawInPlace ==
    LET fs == StatsFrames
    IN /\ Len(fs) >= 1 => fs[1].up = <<>>
       /\ \A k \in 2..Len(fs) : fs[k].up = <<Len(fs[k - 1].lines)>>
       /\ \A k \in 1..Len(fs) : Len(fs[k].lines) = 3 + Len(measures)
       /\ Len(fs) >= 1 => num_lines = Len(fs[Len(fs)].lines)

C9_Witness ==
    /\ pc = "Done"
    /\ Len(StatsFrames) = 4
    /\ Len(measures) = 2
    /\ StatsFrames[4].up = <<5>>

\* C10: without an explicit run count and with min_runs <= max_runs, the
\* initial timed run and the additional runs together are never more than
\* max_runs executions (stated here for max_runs >= 1 and duration > 0).
C10_TotalWithinMaxRuns ==
    (args.runs = 0 /\ args.max_runs >= 1 /\ args.min_runs <= args.max_runs
        /\ executions >= 1 /\ measured_runtime > 0)
       => executions <= args.max_runs

\* C11: in a session with at least one additional run no frame is ahead of
\* the executions: while a planned execution is still pending, the frame
\* written last shows a progress fraction strictly below 1 and does not
\* carry the "Done" label.
C11_NoFrameAheadOfExecutions ==
    (pc = "LoopRun" /\ num_runs >= 1 /\ executions < 1 + num_runs)
       => LET f == stdout[Len(stdout)]
          IN f.kind = "stats" => (f.p[1] < f.p[2] /\ f.text # "Done")

====
